---- MODULE Spec2Model ----
(***************************************************************************)
(* Model of the CRX container decoder of chrome-extension-downloader:      *)
(* ChromeWebStoreURLBuilder.crx_to_zip and its helpers (src/crx_utils.py). *)
(* A byte buffer is a sequence of integers 0..255.  One call of crx_to_zip *)
(* is followed branch by branch; the recursion of line 180 is a new frame. *)
(***************************************************************************)
EXTENDS Integers, Sequences, FiniteSets, TLC

VARIABLES raw, output_filename, crx_data, pc, depth, version,
          zip_start_offset, files, ret, error, wraps, path, round,
          prior_files, calls, url_call, dl

vars == <<raw, output_filename, crx_data, pc, depth, version,
          zip_start_offset, files, ret, error, wraps, path, round,
          prior_files, calls, url_call, dl>>

\* what a single call of crx_to_zip leaves alone: the file state recorded at
\* its start, and the state of the other entry points
others == <<prior_files, calls, url_call, dl>>

----------------------------------------------------------------------------
(* Bounds of the explored inputs *)

MaxParts == 3

MaxWrappedParts == 2

MaxDepth == 9

MaxRounds == 2

----------------------------------------------------------------------------
(* Byte strings of the source *)

ZIP_LOCAL == <<80, 75, 3, 4>>

ZIP_END == <<80, 75, 5, 6>>

ZIP_SPAN == <<80, 75, 7, 8>>

\* PK\x01\x02, the signature of a central directory entry
ZIP_CENTRAL == <<80, 75, 1, 2>>

MAGIC == <<67, 114, 50, 52>>

zip_signatures == <<ZIP_LOCAL, ZIP_END, ZIP_SPAN>>

SanityCeiling == 10000

\* sizes of the end-of-central-directory record and of a central directory
\* entry, and the highest "version needed to extract" the ZIP reader accepts
sizeEndCentDir == 22

sizeCentralDir == 46

MAX_EXTRACT_VERSION == 63

DefaultFilename == "extension.zip"

NoFile == <<-1>>

----------------------------------------------------------------------------
(* Python slicing and bytes.find *)

MinOf(S) == CHOOSE x \in S : \A y \in S : x <= y

\* data[:n]
Take(data, n) == SubSeq(data, 1, IF n < Len(data) THEN n ELSE Len(data))

\* data[n:]
Drop(data, n) == SubSeq(data, n + 1, Len(data))

\* data[a:b] for 0 <= a <= b
Slice(data, a, b) == SubSeq(data, a + 1, IF b < Len(data) THEN b ELSE Len(data))

MatchAt(data, sig, i) == \A j \in 1..Len(sig) : data[i + j] = sig[j]

\* bytes.find: the lowest 0-based index at which sig occurs, -1 if none
Find(data, sig) ==
    LET hits == {i \in 0..(Len(data) - Len(sig)) : MatchAt(data, sig, i)}
    IN  IF hits = {} THEN -1 ELSE MinOf(hits)

MaxOf(S) == CHOOSE x \in S : \A y \in S : x >= y

\* bytes.rfind: the highest 0-based index at which sig occurs, -1 if none
RFind(data, sig) ==
    LET hits == {i \in 0..(Len(data) - Len(sig)) : MatchAt(data, sig, i)}
    IN  IF hits = {} THEN -1 ELSE MaxOf(hits)

\* struct.unpack('<H', b)[0] for a 2-byte slice b
UnpackLE16(b) == b[1] + 256 * b[2]

\* struct.unpack('<I', b)[0] for a 4-byte slice b
UnpackLE32(b) == b[1] + 256 * b[2] + 65536 * b[3] + 16777216 * b[4]

----------------------------------------------------------------------------
(* Helpers of crx_to_zip *)

\* line 138: len(crx_data) >= 4 and crx_data[:4] == b'PK\x03\x04'
IsAlreadyZip(data) == Len(data) >= 4 /\ Take(data, 4) = ZIP_LOCAL

\* a magic test that also sends an unknown version to the signature scan
LacksMagic_VersionToo(data) ==
    IF Len(data) < 8 THEN TRUE
    ELSE Take(data, 4) # MAGIC \/ data[5] \notin {2, 3}

\* line 145: len(crx_data) < 8 or crx_data[:4] != b'Cr24'
LacksMagic(data) == Len(data) < 8 \/ Take(data, 4) # MAGIC

\* a naming that sends every call to the default file
EffectiveName_AlwaysDefault(name) == DefaultFilename

\* lines 133-134: a missing or empty output_filename becomes "extension.zip"
EffectiveName(name) == IF name \in {"None", ""} THEN DefaultFilename ELSE name

\* a scan that returns the data after the signature instead of from it
find_zip_in_data_AfterSignature(data) ==
    LET hits == {k \in 1..Len(zip_signatures) : Find(data, zip_signatures[k]) # -1}
    IN  IF hits = {} THEN <<>>
        ELSE Drop(data, Find(data, zip_signatures[MinOf(hits)]) + 4)

\* a scan that only knows the local-file signature
find_zip_in_data_LocalOnly(data) ==
    IF Find(data, ZIP_LOCAL) # -1 THEN Drop(data, Find(data, ZIP_LOCAL)) ELSE <<>>

\* a scan that returns the data up to the end of the signature
find_zip_in_data_Prefix(data) ==
    LET hits == {k \in 1..Len(zip_signatures) : Find(data, zip_signatures[k]) # -1}
    IN  IF hits = {} THEN <<>>
        ELSE Take(data, Find(data, zip_signatures[MinOf(hits)]) + 4)

\* _find_zip_in_data, lines 243-254: the signatures are tried in list order and
\* the first one that occurs anywhere decides; <<>> stands for None
RECURSIVE FindFrom(_, _)
FindFrom(data, k) ==
    IF k > Len(zip_signatures) THEN <<>>
    ELSE LET pos == Find(data, zip_signatures[k])
         IN  IF pos # -1 THEN Drop(data, pos) ELSE FindFrom(data, k + 1)

find_zip_in_data(data) == FindFrom(data, 1)

\* _find_zip_offset, lines 256-262: [ok, offset, error]
find_zip_offset(data) ==
    LET zip_data == find_zip_in_data(data)
    IN  IF zip_data # <<>>
        THEN [ok |-> TRUE, offset |-> Len(data) - Len(zip_data), error |-> "",
              scanned |-> TRUE]
        ELSE [ok |-> FALSE, offset |-> 0,
              error |-> "No ZIP signature found in CRX file", scanned |-> TRUE]

\* line 220: pubkey_length > 10000 or sig_length > 10000
Crx2Untrusted(pubkey_length, sig_length) ==
    pubkey_length > SanityCeiling \/ sig_length > SanityCeiling

\* line 237: header_length > 10000
Crx3Untrusted(header_length) == header_length > SanityCeiling

\* a CRX2 parser that scans for a signature instead of checking the length
parse_crx2_header_Scans(data) == find_zip_offset(data)

\* _parse_crx2_header, lines 207-224
parse_crx2_header(data) ==
    IF Len(data) < 16
    THEN [ok |-> FALSE, offset |-> 0, error |-> "CRX2 file too small",
          scanned |-> FALSE]
    ELSE LET pubkey_length == UnpackLE32(Slice(data, 8, 12))
             sig_length == UnpackLE32(Slice(data, 12, 16))
         IN  IF Crx2Untrusted(pubkey_length, sig_length)
             THEN find_zip_offset(data)
             ELSE [ok |-> TRUE, offset |-> 16 + pubkey_length + sig_length,
                   error |-> "", scanned |-> FALSE]

\* a CRX3 parser that forgets the 12 bytes in front of the header
parse_crx3_header_NoHeader(data) ==
    IF Len(data) < 12
    THEN [ok |-> FALSE, offset |-> 0, error |-> "CRX3 file too small",
          scanned |-> FALSE]
    ELSE LET header_length == UnpackLE32(Slice(data, 8, 12))
         IN  IF Crx3Untrusted(header_length)
             THEN find_zip_offset(data)
             ELSE [ok |-> TRUE, offset |-> header_length, error |-> "",
                   scanned |-> FALSE]

\* _parse_crx3_header, lines 226-241
parse_crx3_header(data) ==
    IF Len(data) < 12
    THEN [ok |-> FALSE, offset |-> 0, error |-> "CRX3 file too small",
          scanned |-> FALSE]
    ELSE LET header_length == UnpackLE32(Slice(data, 8, 12))
         IN  IF Crx3Untrusted(header_length)
             THEN find_zip_offset(data)
             ELSE [ok |-> TRUE, offset |-> 12 + header_length, error |-> "",
                   scanned |-> FALSE]

\* a nested-container test that looks for the ZIP magic instead of Cr24
IsNestedCrx_WrongMagic(ver, zip_data) ==
    ver = 3 /\ Len(zip_data) >= 4 /\ Take(zip_data, 4) = ZIP_LOCAL

\* lines 177-178: version == 3 and len(zip_data) >= 4 and zip_data[:4] == b'Cr24'
IsNestedCrx(ver, zip_data) ==
    ver = 3 /\ Len(zip_data) >= 4 /\ Take(zip_data, 4) = MAGIC

\* a bounds test that lets an offset equal to the length through
OffsetOutOfRange_Exclusive(offset, data) == offset > Len(data)

\* line 170: zip_start_offset >= len(crx_data)
OffsetOutOfRange(offset, data) == offset >= Len(data)

----------------------------------------------------------------------------
(* The ZIP check of lines 186-197: zipfile.ZipFile(output_filename, 'r') reads *)
(* the end-of-central-directory record and then every central directory entry. *)
(* ZIP64 records, file names and extra fields are left out: the archives below *)
(* have none.                                                                   *)

\* the offset of the end record: the last 22 bytes when they carry the
\* signature and an empty comment, else the last occurrence of the signature
\* if a whole record follows it; -1 when there is none
EndRecord(data) ==
    LET n == Len(data)
    IN  IF n < sizeEndCentDir THEN -1
        ELSE IF /\ Slice(data, n - sizeEndCentDir, n - sizeEndCentDir + 4) = ZIP_END
                /\ data[n - 1] = 0
                /\ data[n] = 0
        THEN n - sizeEndCentDir
        ELSE LET start == RFind(data, ZIP_END)
             IN  IF start >= 0 /\ start + sizeEndCentDir <= n THEN start ELSE -1

\* the loop over the central directory: BadZipFile for a short entry or a
\* wrong signature, NotImplementedError for an entry that needs a newer reader
RECURSIVE ReadCentralDir(_, _, _)
ReadCentralDir(cd, total, size_cd) ==
    IF total >= size_cd THEN "ok"
    ELSE LET centdir == Slice(cd, total, total + sizeCentralDir)
         IN  IF Len(centdir) # sizeCentralDir THEN "BadZipFile"
             ELSE IF Take(centdir, 4) # ZIP_CENTRAL THEN "BadZipFile"
             ELSE IF centdir[7] > MAX_EXTRACT_VERSION THEN "NotImplementedError"
             ELSE ReadCentralDir(cd,
                      total + sizeCentralDir + UnpackLE16(Slice(centdir, 28, 30))
                          + UnpackLE16(Slice(centdir, 30, 32))
                          + UnpackLE16(Slice(centdir, 32, 34)),
                      size_cd)

\* what opening the written file as a ZIP archive ends in
ZipFileOutcome(data) ==
    LET location == EndRecord(data)
    IN  IF location = -1 THEN "BadZipFile"
        ELSE LET size_cd == UnpackLE32(Slice(data, location + 12, location + 16))
                 start_dir == location - size_cd
             IN  IF start_dir < 0 THEN "BadZipFile"
                 ELSE ReadCentralDir(Slice(data, start_dir, start_dir + size_cd),
                                     0, size_cd)

----------------------------------------------------------------------------
(* The buffers handed to crx_to_zip.  A length field's top byte stays below   *)
(* 128 so that every unpacked length is an integer the checker can hold.      *)

PackLE32(n) ==
    <<n % 256, (n \div 256) % 256, (n \div 65536) % 256, (n \div 16777216) % 256>>

Zeros(n) == [i \in 1..n |-> 0]

VersionField(v) == <<v, 0, 0, 0>>

\* the pieces a body is put together from: the three ZIP signatures, the CRX
\* magic, a lower-case look-alike, half a signature and a filler byte
Parts == {ZIP_LOCAL, ZIP_END, ZIP_SPAN, MAGIC, <<112, 107, 3, 4>>, <<80, 75>>, <<0>>}

\* an archive without entries: the end record alone
EmptyArchive == ZIP_END \o Zeros(18)

\* the end record of an archive with one central directory entry of 46 bytes
OneEntryEnd == ZIP_END \o <<0, 0, 0, 0, 1, 0, 1, 0>> \o PackLE32(46) \o Zeros(6)

\* an archive whose only entry needs version 2.0 to extract
StoredArchive == ZIP_CENTRAL \o <<20, 0, 20, 0>> \o Zeros(38) \o OneEntryEnd

\* an archive whose only entry needs version 25.5 to extract
UnsupportedArchive == ZIP_CENTRAL \o <<20, 0, 255, 0>> \o Zeros(38) \o OneEntryEnd

\* an archive whose central directory is cut short
TruncatedArchive == ZIP_CENTRAL \o OneEntryEnd

Archives ==
    {EmptyArchive, StoredArchive, UnsupportedArchive, TruncatedArchive,
     ZIP_LOCAL \o UnsupportedArchive, <<0>> \o UnsupportedArchive}

RECURSIVE Bodies(_)
Bodies(n) ==
    IF n = 0 THEN {<<>>}
    ELSE LET shorter == Bodies(n - 1)
         IN  shorter \cup {b \o part : b \in shorter, part \in Parts}

HeaderLengths == {0, 1, 5, 10000, 10001, 2147483647}

KeyLengths == {0, 1, 10000, 10001}

Paddings == {0, 1, 5}

Crx3Headers ==
    {MAGIC \o VersionField(3) \o PackLE32(h) \o Zeros(p) :
        h \in HeaderLengths, p \in Paddings}
    \cup {MAGIC \o VersionField(3) \o PackLE32(h) \o Zeros(h) : h \in {10000, 10001}}

Crx2Headers ==
    {MAGIC \o VersionField(2) \o PackLE32(k) \o PackLE32(s) \o Zeros(p) :
        k \in KeyLengths, s \in KeyLengths, p \in Paddings}
    \cup {MAGIC \o VersionField(2) \o PackLE32(10000) \o PackLE32(0) \o Zeros(10000)}

\* a header cut short, or of a version that is neither 2 nor 3
OddHeaders ==
    {MAGIC \o VersionField(v) \o Zeros(t) : v \in {2, 3}, t \in {0, 2}}
    \cup {MAGIC \o VersionField(v) : v \in {1, 4}}

Wrapped ==
    {h \o b : h \in Crx3Headers \cup Crx2Headers \cup OddHeaders,
              b \in Bodies(MaxWrappedParts) \cup Archives}

\* one level of a chain of nested CRX3 containers, with p bytes of header
NestLevel(p) == MAGIC \o VersionField(3) \o PackLE32(p) \o Zeros(p)

RECURSIVE Chain(_, _, _)
Chain(d, p, inner) == IF d = 0 THEN inner ELSE NestLevel(p) \o Chain(d - 1, p, inner)

InnerPayloads ==
    {ZIP_LOCAL, ZIP_END \o ZIP_LOCAL, <<0, 0>>, <<>>, MAGIC, UnsupportedArchive,
     MAGIC \o VersionField(1),
     MAGIC \o VersionField(2) \o PackLE32(0) \o PackLE32(1) \o <<0>> \o MAGIC \o ZIP_LOCAL,
     MAGIC \o VersionField(3) \o PackLE32(10001) \o ZIP_SPAN \o ZIP_END}

Nested ==
    {Chain(d, p, inner) : d \in 1..MaxDepth, p \in {0, 1}, inner \in InnerPayloads}

Inputs == Bodies(MaxParts) \cup Archives \cup Wrapped \cup Nested

\* output_filename as passed by the caller; "None" is Python's None
Names == {"None", "out.zip"}

FileNames == {DefaultFilename, "out.zip"}

\* what the output files hold before the call: nothing, or older bytes
PriorContents == {NoFile, <<1>>}

----------------------------------------------------------------------------
(* State machine *)

Init ==
    /\ raw \in Inputs
    /\ output_filename \in Names
    /\ \E prior \in PriorContents : files = [f \in FileNames |-> prior]
    /\ crx_data = raw
    /\ pc = "entry"
    /\ depth = 0
    /\ version = 0
    /\ zip_start_offset = 0
    /\ ret = ""
    /\ error = ""
    /\ wraps = 0
    /\ path = ""
    /\ round = 1
    /\ prior_files = files
    /\ calls = <<>>
    /\ url_call = [pc |-> "idle"]
    /\ dl = [pc |-> "idle"]

\* a write that loses the first four bytes of the data
WriteAndReturn_DropsSignature(data, how) ==
    /\ files' = [files EXCEPT ![EffectiveName(output_filename)] = Drop(data, 4)]
    /\ ret' = EffectiveName(output_filename)
    /\ path' = how
    /\ pc' = IF depth = 0 THEN "returned" ELSE "return"
    /\ error' = error

\* with open(output_filename, 'wb') as f: f.write(data); return output_filename
\* (inside a nested frame the value travels up through line 180)
WriteAndReturn(data, how) ==
    /\ files' = [files EXCEPT ![EffectiveName(output_filename)] = data]
    /\ ret' = EffectiveName(output_filename)
    /\ path' = how
    /\ pc' = IF depth = 0 THEN "returned" ELSE "return"
    /\ error' = error

\* a raise that leaves an emptied output file behind
Raise_Truncates(message) ==
    /\ error' = message
    /\ pc' = "except"
    /\ files' = [files EXCEPT ![EffectiveName(output_filename)] = <<>>]
    /\ UNCHANGED <<ret, path>>

\* raise ValueError(message): control goes to the except clause of line 204
Raise(message) ==
    /\ error' = message
    /\ pc' = "except"
    /\ UNCHANGED <<files, ret, path>>

\* lines 137-142: the input is already a ZIP file
AlreadyZip ==
    /\ pc = "entry"
    /\ IsAlreadyZip(crx_data)
    /\ WriteAndReturn(crx_data, "already_zip")
    /\ UNCHANGED <<raw, output_filename, crx_data, depth, version,
                   zip_start_offset, wraps, round>>
    /\ UNCHANGED others

\* lines 144-153: no CRX magic, look for a ZIP signature in the data
ScanFallback ==
    /\ pc = "entry"
    /\ ~IsAlreadyZip(crx_data)
    /\ LacksMagic(crx_data)
    /\ LET zip_data == find_zip_in_data(crx_data)
       IN  IF zip_data # <<>>
           THEN WriteAndReturn(zip_data, "scan")
           ELSE Raise("Invalid CRX file: Does not start with Cr24")
    /\ UNCHANGED <<raw, output_filename, crx_data, depth, version,
                   zip_start_offset, wraps, round>>
    /\ UNCHANGED others

\* lines 155-158: version = crx_data[4], neither 2 nor 3
BadVersion ==
    /\ pc = "entry"
    /\ ~IsAlreadyZip(crx_data)
    /\ ~LacksMagic(crx_data)
    /\ crx_data[5] \notin {2, 3}
    /\ version' = crx_data[5]
    /\ Raise("Unexpected CRX format version")
    /\ UNCHANGED <<raw, output_filename, crx_data, depth, zip_start_offset,
                   wraps, round>>
    /\ UNCHANGED others

\* the header parser's result becomes zip_start_offset, or its error is raised
TakeOffset(parsed, kind) ==
    IF parsed.ok
    THEN /\ zip_start_offset' = parsed.offset
         /\ pc' = "offset"
         /\ path' = IF parsed.scanned THEN "header_scan" ELSE kind
         /\ UNCHANGED <<files, ret, error>>
    ELSE /\ zip_start_offset' = zip_start_offset
         /\ Raise(parsed.error)

\* lines 163-165: version 2
ParseCrx2 ==
    /\ pc = "entry"
    /\ ~IsAlreadyZip(crx_data)
    /\ ~LacksMagic(crx_data)
    /\ crx_data[5] = 2
    /\ version' = 2
    /\ TakeOffset(parse_crx2_header(crx_data), "crx2")
    /\ UNCHANGED <<raw, output_filename, crx_data, depth, wraps, round>>
    /\ UNCHANGED others

\* lines 166-168: version 3
ParseCrx3 ==
    /\ pc = "entry"
    /\ ~IsAlreadyZip(crx_data)
    /\ ~LacksMagic(crx_data)
    /\ crx_data[5] = 3
    /\ version' = 3
    /\ TakeOffset(parse_crx3_header(crx_data), "crx3")
    /\ UNCHANGED <<raw, output_filename, crx_data, depth, wraps, round>>
    /\ UNCHANGED others

\* lines 170-171: no payload remains
CorruptedOffset ==
    /\ pc = "offset"
    /\ OffsetOutOfRange(zip_start_offset, crx_data)
    /\ Raise("CRX file appears to be corrupted")
    /\ UNCHANGED <<raw, output_filename, crx_data, depth, version,
                   zip_start_offset, wraps, round>>
    /\ UNCHANGED others

\* lines 174-180: the payload is a CRX again, crx_to_zip(zip_data, output_filename)
NestedCall ==
    /\ pc = "offset"
    /\ ~OffsetOutOfRange(zip_start_offset, crx_data)
    /\ IsNestedCrx(version, Drop(crx_data, zip_start_offset))
    /\ crx_data' = Drop(crx_data, zip_start_offset)
    /\ depth' = depth + 1
    /\ pc' = "entry"
    /\ version' = 0
    /\ zip_start_offset' = 0
    /\ UNCHANGED <<raw, output_filename, files, ret, error, wraps, path, round>>
    /\ UNCHANGED others

\* lines 174, 182-202: write the payload; the ZIP check of lines 186-197
\* opens the archive or prints a warning (except zipfile.BadZipFile)
WriteZip ==
    /\ pc = "offset"
    /\ ~OffsetOutOfRange(zip_start_offset, crx_data)
    /\ ~IsNestedCrx(version, Drop(crx_data, zip_start_offset))
    /\ ZipFileOutcome(Drop(crx_data, zip_start_offset)) \in {"ok", "BadZipFile"}
    /\ WriteAndReturn(Drop(crx_data, zip_start_offset), path)
    /\ UNCHANGED <<raw, output_filename, crx_data, depth, version,
                   zip_start_offset, wraps, round>>
    /\ UNCHANGED others

\* lines 174, 182-187, 204: the payload is written, then the ZIP check raises
\* an exception that is not a BadZipFile and control goes to the except clause
WriteZipCheckRaises ==
    /\ pc = "offset"
    /\ ~OffsetOutOfRange(zip_start_offset, crx_data)
    /\ ~IsNestedCrx(version, Drop(crx_data, zip_start_offset))
    /\ ZipFileOutcome(Drop(crx_data, zip_start_offset)) = "NotImplementedError"
    /\ files' = [files EXCEPT ![EffectiveName(output_filename)] =
                                  Drop(crx_data, zip_start_offset)]
    /\ error' = "zip file version"
    /\ pc' = "except"
    /\ UNCHANGED <<raw, output_filename, crx_data, depth, version,
                   zip_start_offset, ret, wraps, path, round>>
    /\ UNCHANGED others

\* line 180: an outer frame returns what the nested call returned
ReturnNested ==
    /\ pc = "return"
    /\ depth' = depth - 1
    /\ pc' = IF depth - 1 = 0 THEN "returned" ELSE "return"
    /\ UNCHANGED <<raw, output_filename, crx_data, version, zip_start_offset,
                   files, ret, error, wraps, path, round>>
    /\ UNCHANGED others

\* lines 204-205: every frame wraps the exception in a ValueError and re-raises
ExceptWrap ==
    /\ pc = "except"
    /\ wraps' = wraps + 1
    /\ IF depth = 0
       THEN pc' = "raised" /\ depth' = depth
       ELSE pc' = "except" /\ depth' = depth - 1
    /\ UNCHANGED <<raw, output_filename, crx_data, version, zip_start_offset,
                   files, ret, error, path, round>>
    /\ UNCHANGED others

\* main --convert, lines 354-370: the written file is converted again, the
\* output name being the input name with its extension replaced by .zip
ConvertAgain ==
    /\ pc = "returned"
    /\ round < MaxRounds
    /\ raw' = files[ret]
    /\ crx_data' = files[ret]
    /\ output_filename' = ret
    /\ round' = round + 1
    /\ pc' = "entry"
    /\ depth' = 0
    /\ version' = 0
    /\ zip_start_offset' = 0
    /\ ret' = ""
    /\ error' = ""
    /\ wraps' = 0
    /\ path' = ""
    /\ prior_files' = files
    /\ UNCHANGED <<files, calls, url_call, dl>>

Next ==
    \/ AlreadyZip
    \/ ScanFallback
    \/ BadVersion
    \/ ParseCrx2
    \/ ParseCrx3
    \/ CorruptedOffset
    \/ NestedCall
    \/ WriteZip
    \/ WriteZipCheckRaises
    \/ ReturnNested
    \/ ExceptWrap
    \/ ConvertAgain

Spec == Init /\ [][Next]_vars

\* the shape of the decoder's state under Spec
TypeOK ==
    /\ pc \in {"entry", "offset", "return", "except", "returned", "raised"}
    /\ depth \in 0..MaxDepth + 1
    /\ version \in 0..255
    /\ round \in 1..MaxRounds

Done == pc \in {"returned", "raised"}

----------------------------------------------------------------------------
(* crx_to_zip as a function of the buffer, for the callers below: what lines   *)
(* 136-180 arrive at before anything is written.  frames counts the calls on   *)
(* the stack, checked tells whether the ZIP check of lines 186-197 follows.    *)

Extracted(data, follows) ==
    [ok |-> TRUE, data |-> data, error |-> "", frames |-> 1, checked |-> follows]

Failed(message) ==
    [ok |-> FALSE, data |-> <<>>, error |-> message, frames |-> 1,
     checked |-> FALSE]

RECURSIVE extract_zip(_)
extract_zip(data) ==
    IF IsAlreadyZip(data) THEN Extracted(data, FALSE)
    ELSE IF LacksMagic(data)
    THEN LET zip_data == find_zip_in_data(data)
         IN  IF zip_data # <<>> THEN Extracted(zip_data, FALSE)
             ELSE Failed("Invalid CRX file: Does not start with Cr24")
    ELSE IF data[5] \notin {2, 3} THEN Failed("Unexpected CRX format version")
    ELSE LET parsed == IF data[5] = 2 THEN parse_crx2_header(data)
                       ELSE parse_crx3_header(data)
         IN  IF ~parsed.ok THEN Failed(parsed.error)
             ELSE IF OffsetOutOfRange(parsed.offset, data)
             THEN Failed("CRX file appears to be corrupted")
             ELSE IF IsNestedCrx(data[5], Drop(data, parsed.offset))
             THEN [extract_zip(Drop(data, parsed.offset)) EXCEPT !.frames = @ + 1]
             ELSE Extracted(Drop(data, parsed.offset), TRUE)

\* the function and the step-by-step call agree on every finished call
ExtractAgrees ==
    Done =>
        LET e == extract_zip(raw)
        IN  IF pc = "returned"
            THEN e.ok /\ files[ret] = e.data
                 /\ (e.checked => ZipFileOutcome(e.data) # "NotImplementedError")
            ELSE IF error = "zip file version"
            THEN /\ e.ok /\ e.checked /\ wraps = e.frames
                 /\ ZipFileOutcome(e.data) = "NotImplementedError"
                 /\ files[EffectiveName(output_filename)] = e.data
            ELSE ~e.ok /\ error = e.error /\ wraps = e.frames

----------------------------------------------------------------------------
(* Two calls of crx_to_zip running in two threads.  Each call works on its own *)
(* buffer; the files are the only thing the calls have in common.              *)

Callers == {1, 2}

ConcInputs ==
    {ZIP_LOCAL \o <<0>>,
     <<0>> \o ZIP_END,
     <<0, 0>>,
     MAGIC \o VersionField(1),
     MAGIC \o VersionField(3) \o PackLE32(0) \o StoredArchive,
     MAGIC \o VersionField(2) \o PackLE32(0) \o PackLE32(0) \o UnsupportedArchive,
     NestLevel(0) \o MAGIC \o VersionField(3) \o PackLE32(1) \o <<0>> \o MAGIC}

ConcNames == {"None", "extension.zip", "out.zip"}

InitConc ==
    /\ calls \in [Callers -> [crx_data : ConcInputs, output_filename : ConcNames,
                              pc : {"entry"}, zip_data : {<<>>}, checked : {FALSE},
                              error : {""}, wraps : {0}, ret : {""},
                              delivered : {<<>>}]]
    /\ files = [f \in FileNames |-> NoFile]
    /\ prior_files = files
    /\ raw = <<>>
    /\ output_filename = "None"
    /\ crx_data = <<>>
    /\ pc = "idle"
    /\ depth = 0
    /\ version = 0
    /\ zip_start_offset = 0
    /\ ret = ""
    /\ error = ""
    /\ wraps = 0
    /\ path = ""
    /\ round = 1
    /\ url_call = [pc |-> "idle"]
    /\ dl = [pc |-> "idle"]

\* what the calls of the two threads leave alone
sequential == <<raw, output_filename, crx_data, pc, depth, version,
                zip_start_offset, ret, error, wraps, path, round,
                prior_files, url_call, dl>>

\* f.write(data) on a file opened at offset 0: the bytes already in the file
\* beyond the data stay
Overwrite(old, data) ==
    IF old = NoFile THEN data ELSE data \o Drop(old, Len(data))

\* lines 136-180 of call c: everything up to the write works on the call's own
\* buffer; an error is wrapped once per frame (lines 204-205)
ConcExtract(c) ==
    /\ calls[c].pc = "entry"
    /\ LET e == extract_zip(calls[c].crx_data)
       IN  calls' = [calls EXCEPT ![c] =
               IF e.ok
               THEN [@ EXCEPT !.pc = "open", !.zip_data = e.data,
                              !.checked = e.checked]
               ELSE [@ EXCEPT !.pc = "raised", !.error = e.error,
                              !.wraps = e.frames]]
    /\ UNCHANGED files
    /\ UNCHANGED sequential

\* open(output_filename, 'wb') of lines 140, 150, 183: the file is created or
\* truncated
ConcOpen(c) ==
    /\ calls[c].pc = "open"
    /\ files' = [files EXCEPT ![EffectiveName(calls[c].output_filename)] = <<>>]
    /\ calls' = [calls EXCEPT ![c].pc = "write"]
    /\ UNCHANGED sequential

\* f.write(zip_data) and the close of the with block; lines 142 and 151 return
\* right away
ConcWrite(c) ==
    /\ calls[c].pc = "write"
    /\ LET name == EffectiveName(calls[c].output_filename)
           written == Overwrite(files[name], calls[c].zip_data)
       IN  /\ files' = [files EXCEPT ![name] = written]
           /\ calls' = [calls EXCEPT ![c] =
                  IF calls[c].checked
                  THEN [@ EXCEPT !.pc = "check"]
                  ELSE [@ EXCEPT !.pc = "returned", !.ret = name,
                                 !.delivered = written]]
    /\ UNCHANGED sequential

\* lines 186-202: zipfile.ZipFile reads the file back; return, or lines 204-205
ConcCheck(c) ==
    /\ calls[c].pc = "check"
    /\ LET name == EffectiveName(calls[c].output_filename)
       IN  calls' = [calls EXCEPT ![c] =
               IF files[name] # NoFile
                  /\ ZipFileOutcome(files[name]) = "NotImplementedError"
               THEN [@ EXCEPT !.pc = "raised", !.error = "zip file version"]
               ELSE [@ EXCEPT !.pc = "returned", !.ret = name,
                              !.delivered = files[name]]]
    /\ UNCHANGED files
    /\ UNCHANGED sequential

NextConc ==
    \E c \in Callers :
        \/ ConcExtract(c)
        \/ ConcOpen(c)
        \/ ConcWrite(c)
        \/ ConcCheck(c)

SpecConc == InitConc /\ [][NextConc]_vars

----------------------------------------------------------------------------
(* parse_chrome_store_url, lines 275-297.  A URL is a sequence of tokens: the  *)
(* delimiters "://", "/", "?" and "#", and between them the longest runs of    *)
(* other characters.                                                           *)

Delimiters == {"://", "/", "?", "#"}

\* the tokens in front of the first "?" or "#"
RECURSIVE UpToQuery(_)
UpToQuery(tokens) ==
    IF tokens = <<>> \/ Head(tokens) \in {"?", "#"} THEN <<>>
    ELSE <<Head(tokens)>> \o UpToQuery(Tail(tokens))

\* urllib.parse.urlparse, line 286: netloc stands between "://" and the next
\* delimiter, path is what follows up to the query or the fragment; without
\* "scheme://" there is no netloc and everything up to the query is the path
urlparse(url) ==
    IF Len(url) >= 2 /\ url[1] \notin Delimiters /\ url[2] = "://"
    THEN LET rest == Drop(url, 2)
         IN  IF rest # <<>> /\ rest[1] \notin Delimiters
             THEN [netloc |-> rest[1], path |-> UpToQuery(Tail(rest))]
             ELSE [netloc |-> "", path |-> UpToQuery(rest)]
    ELSE [netloc |-> "", path |-> UpToQuery(url)]

\* str.split("/"), line 290: the strings between the slashes, empty ones too
RECURSIVE SplitFrom(_, _)
SplitFrom(tokens, parts) ==
    IF tokens = <<>> THEN parts
    ELSE IF Head(tokens) = "/" THEN SplitFrom(Tail(tokens), Append(parts, ""))
    ELSE SplitFrom(Tail(tokens),
                   [parts EXCEPT ![Len(parts)] = @ \o Head(tokens)])

Split(url_path) == SplitFrom(url_path, <<"">>)

\* line 291: len(path_parts) == 4 and parsed.path.startswith("/webstore/detail/")
ValidStorePath(url_path) ==
    Len(Split(url_path)) = 4 /\ Take(url_path, 5) = <<"/", "webstore", "/", "detail", "/">>

Schemes == {"https", "http"}

Hosts == {"chrome.google.com", "chromewebstore.google.com", "example.com",
          "chrome.google.com:443"}

StoreId == "gppongmhjkpfnbhagpmjfkannfbllamg"

StoreName == "wappalyzer-technology-profiler"

Paths ==
    {<<"/", "webstore", "/", "detail", "/", StoreName, "/", StoreId>>,
     <<"/", "webstore", "/", "detail", "/", StoreId>>,
     <<"/", "webstore", "/", "detail", "/", StoreId, "/">>,
     <<"/", "webstore", "/", "detail", "/">>,
     <<"/", "webstore", "/", "detail", "/", StoreName, "/", StoreId, "/", "reviews">>,
     <<"/", "webstore", "/", "category", "/", StoreId>>,
     <<"/", "not-chrome-store">>,
     <<>>}

Queries == {<<>>, <<"?", "hl=en">>, <<"#", "overview">>, <<"?", "a", "/", "b">>}

\* the argument chrome_store_url with the parts it was put together from; a
\* URL without "scheme://" has no host
UrlInputs ==
    {[url |-> <<s, "://", h>> \o p \o q, host |-> h, path |-> p] :
        s \in Schemes, h \in Hosts, p \in Paths, q \in Queries}
    \cup {[url |-> <<h>> \o p \o q, host |-> "", path |-> <<h>> \o p] :
        h \in Hosts, p \in Paths, q \in Queries}

InitUrl ==
    /\ \E u \in UrlInputs :
           url_call = [pc |-> "entry", url |-> u.url, host |-> u.host,
                       path |-> u.path, ret |-> "", error |-> ""]
    /\ files = [f \in FileNames |-> NoFile]
    /\ prior_files = files
    /\ raw = <<>>
    /\ output_filename = "None"
    /\ crx_data = <<>>
    /\ pc = "idle"
    /\ depth = 0
    /\ version = 0
    /\ zip_start_offset = 0
    /\ ret = ""
    /\ error = ""
    /\ wraps = 0
    /\ path = ""
    /\ round = 1
    /\ calls = <<>>
    /\ dl = [pc |-> "idle"]

\* what parse_chrome_store_url leaves alone
not_url == <<raw, output_filename, crx_data, pc, depth, version,
             zip_start_offset, files, ret, error, wraps, path, round,
             prior_files, calls, dl>>

\* lines 287-288 and 296-297: the host is not chrome.google.com
UrlRaiseHost ==
    /\ url_call.pc = "entry"
    /\ urlparse(url_call.url).netloc # "chrome.google.com"
    /\ url_call' = [url_call EXCEPT !.pc = "raised",
            !.error = "Error parsing URL: Not a valid Chrome Web Store URL"]
    /\ UNCHANGED not_url

\* lines 290-292 and 296-297: the path is not of the expected form
UrlRaiseFormat ==
    /\ url_call.pc = "entry"
    /\ urlparse(url_call.url).netloc = "chrome.google.com"
    /\ ~ValidStorePath(urlparse(url_call.url).path)
    /\ url_call' = [url_call EXCEPT !.pc = "raised",
            !.error = "Error parsing URL: Not a valid Chrome Web Store URL format"]
    /\ UNCHANGED not_url

\* line 294: return path_parts[-1]
UrlReturn ==
    /\ url_call.pc = "entry"
    /\ urlparse(url_call.url).netloc = "chrome.google.com"
    /\ ValidStorePath(urlparse(url_call.url).path)
    /\ LET path_parts == Split(urlparse(url_call.url).path)
       IN  url_call' = [url_call EXCEPT !.pc = "returned",
                                       !.ret = path_parts[Len(path_parts)]]
    /\ UNCHANGED not_url

NextUrl ==
    \/ UrlRaiseHost
    \/ UrlRaiseFormat
    \/ UrlReturn

SpecUrl == InitUrl /\ [][NextUrl]_vars

----------------------------------------------------------------------------
(* AutoExtensionDownloader.download_and_convert, chrome_extension_downloader.py *)
(* lines 35-91, with to_cws_url's test of the extension ID (crx_utils.py lines *)
(* 95-97).  An extension ID is a sequence of characters.                       *)

AtoP == {"a", "b", "c", "d", "e", "f", "g", "h", "i", "j", "k", "l", "m", "n",
         "o", "p"}

\* re.match(r'^[a-p]{32}$', extension_id): 32 characters a-p from the start,
\* then the end of the string, or a newline that is the last character
MatchesIdPattern(id) ==
    /\ Len(id) >= 32
    /\ \A i \in 1..32 : id[i] \in AtoP
    /\ \/ Len(id) = 32
       \/ Len(id) = 33 /\ id[33] = "\n"

\* the characters of an ID as one string
RECURSIVE Join(_)
Join(id) == IF id = <<>> THEN "" ELSE Head(id) \o Join(Tail(id))

\* lines 57 and 87: f"{extension_id}.crx"
CrxFilename(id) == Join(id) \o ".crx"

\* lines 54-55: f"{extension_id}.zip" when no output_filename is given
ZipFilename(id, name) == IF name \in {"None", ""} THEN Join(id) \o ".zip" ELSE name

Rep(ch, n) == [i \in 1..n |-> ch]

ExtensionIds ==
    {Rep("a", 32), Rep("p", 32), Rep("a", 31), Rep("a", 33), <<>>,
     Rep("a", 31) \o <<"q">>, Rep("a", 31) \o <<"A">>,
     Rep("a", 32) \o <<"\n">>, <<"\n">> \o Rep("a", 31),
     Rep("a", 31) \o <<"\n">>}

\* what _download_crx returns when it returns no bytes: None
NoData == <<-2>>

\* what _download_crx returns (lines 93-131): None, no bytes, or a buffer
Responses ==
    {NoData, <<>>,
     MAGIC \o VersionField(3) \o PackLE32(0) \o StoredArchive,
     ZIP_LOCAL \o <<0>>,
     <<0, 0>>,
     MAGIC \o VersionField(1) \o ZIP_LOCAL,
     MAGIC \o VersionField(2) \o PackLE32(0) \o PackLE32(0) \o UnsupportedArchive,
     NestLevel(0) \o MAGIC \o VersionField(3) \o PackLE32(1) \o <<0>> \o ZIP_END}

\* the files of a call: <id>.crx, <id>.zip, out.zip
DlFileNames(id) == {CrxFilename(id), ZipFilename(id, "None"), "out.zip"}

InitDl ==
    /\ \E id \in ExtensionIds, response \in Responses, cleanup \in BOOLEAN,
          name \in {"None", "out.zip", ".crx"}, before \in PriorContents :
           /\ dl = [pc |-> "entry", extension_id |-> id,
                    output_filename |-> IF name = ".crx" THEN CrxFilename(id)
                                        ELSE name,
                    cleanup |-> cleanup, response |-> response,
                    downloads |-> 0, converts |-> 0, written |-> {},
                    ret |-> "", error |-> ""]
           /\ files = [f \in DlFileNames(id) |-> before]
    /\ prior_files = files
    /\ raw = <<>>
    /\ output_filename = "None"
    /\ crx_data = <<>>
    /\ pc = "idle"
    /\ depth = 0
    /\ version = 0
    /\ zip_start_offset = 0
    /\ ret = ""
    /\ error = ""
    /\ wraps = 0
    /\ path = ""
    /\ round = 1
    /\ calls = <<>>
    /\ url_call = [pc |-> "idle"]

\* what download_and_convert leaves alone
not_dl == <<raw, output_filename, crx_data, pc, depth, version,
            zip_start_offset, ret, error, wraps, path, round,
            prior_files, calls, url_call>>

\* lines 47-57: to_cws_url checks the ID; the output name gets its default
DlValidate ==
    /\ dl.pc = "entry"
    /\ dl' = IF MatchesIdPattern(dl.extension_id)
             THEN [dl EXCEPT !.pc = "download",
                     !.output_filename = ZipFilename(dl.extension_id, @)]
             ELSE [dl EXCEPT !.pc = "except",
                             !.error = "Invalid extension ID format"]
    /\ UNCHANGED files
    /\ UNCHANGED not_dl

\* lines 59-68: download; no data raises, data is saved as <id>.crx
DlDownload ==
    /\ dl.pc = "download"
    /\ IF dl.response \in {NoData, <<>>}
       THEN /\ dl' = [dl EXCEPT !.pc = "except", !.downloads = @ + 1,
                                !.error = "Failed to download CRX file"]
            /\ UNCHANGED files
       ELSE /\ dl' = [dl EXCEPT !.pc = "convert", !.downloads = @ + 1,
                         !.written = @ \cup {CrxFilename(dl.extension_id)}]
            /\ files' = [files EXCEPT ![CrxFilename(dl.extension_id)] = dl.response]
    /\ UNCHANGED not_dl

\* line 74: crx_to_zip(crx_data, output_filename), the whole call
DlConvert ==
    /\ dl.pc = "convert"
    /\ LET e == extract_zip(dl.response)
           name == EffectiveName(dl.output_filename)
       IN  IF ~e.ok
           THEN /\ dl' = [dl EXCEPT !.pc = "except", !.converts = @ + 1,
                                    !.error = e.error]
                /\ UNCHANGED files
           ELSE /\ files' = [files EXCEPT ![name] = e.data]
                /\ dl' = IF e.checked
                            /\ ZipFileOutcome(e.data) = "NotImplementedError"
                         THEN [dl EXCEPT !.pc = "except", !.converts = @ + 1,
                                 !.written = @ \cup {name},
                                 !.error = "zip file version"]
                         ELSE [dl EXCEPT !.pc = "cleanup", !.converts = @ + 1,
                                 !.written = @ \cup {name}, !.ret = name]
    /\ UNCHANGED not_dl

\* lines 76-83: os.remove(crx_filename) if cleanup, return zip_file
DlCleanup ==
    /\ dl.pc = "cleanup"
    /\ files' = IF dl.cleanup
                THEN [files EXCEPT ![CrxFilename(dl.extension_id)] = NoFile]
                ELSE files
    /\ dl' = [dl EXCEPT !.pc = "returned"]
    /\ UNCHANGED not_dl

\* lines 85-91: remove <id>.crx if it exists, raise e
DlExcept ==
    /\ dl.pc = "except"
    /\ files' = [files EXCEPT ![CrxFilename(dl.extension_id)] = NoFile]
    /\ dl' = [dl EXCEPT !.pc = "raised"]
    /\ UNCHANGED not_dl

NextDl ==
    \/ DlValidate
    \/ DlDownload
    \/ DlConvert
    \/ DlCleanup
    \/ DlExcept

SpecDl == InitDl /\ [][NextDl]_vars

----------------------------------------------------------------------------
(* Vocabulary of the properties, written on the input buffer alone *)

StartsWith(data, prefix) ==
    Len(data) >= Len(prefix) /\ SubSeq(data, 1, Len(prefix)) = prefix

\* the unsigned little-endian 32-bit integer stored at byte offset off
FieldAt(data, off) ==
    data[off + 1] + 256 * data[off + 2] + 65536 * data[off + 3]
        + 16777216 * data[off + 4]

Signatures == {ZIP_LOCAL, ZIP_END, ZIP_SPAN}

SignatureAt(data, i) ==
    \E sig \in Signatures : i + 4 <= Len(data) /\ SubSeq(data, i + 1, i + 4) = sig

StartsWithSignature(data) == \E sig \in Signatures : StartsWith(data, sig)

ContainsSignature(data) == \E i \in 0..(Len(data) - 4) : SignatureAt(data, i)

\* the bytes delivered by a call that has returned
Delivered == files[ret]

WellFormedCrx3(data) ==
    /\ Len(data) >= 12
    /\ StartsWith(data, MAGIC)
    /\ data[5] = 3
    /\ FieldAt(data, 8) <= 10000
    /\ 12 + FieldAt(data, 8) < Len(data)

Crx3Payload(data) == SubSeq(data, 12 + FieldAt(data, 8) + 1, Len(data))

WellFormedCrx2(data) ==
    /\ Len(data) >= 16
    /\ StartsWith(data, MAGIC)
    /\ data[5] = 2
    /\ FieldAt(data, 8) <= 10000
    /\ FieldAt(data, 12) <= 10000
    /\ 16 + FieldAt(data, 8) + FieldAt(data, 12) < Len(data)

Crx2Payload(data) ==
    SubSeq(data, 16 + FieldAt(data, 8) + FieldAt(data, 12) + 1, Len(data))

----------------------------------------------------------------------------
(* C1 *)

\* C1: an input whose first four bytes are PK\x03\x04 is decoded successfully,
\* the bytes delivered are the input itself, and the name returned is the
\* output filename passed in (the default name when none was passed).
C1_AlreadyZipVerbatim ==
    (Done /\ StartsWith(raw, ZIP_LOCAL)) =>
        /\ pc = "returned"
        /\ Delivered = raw
        /\ ret = (IF output_filename = "None" THEN "extension.zip"
                  ELSE output_filename)

C1_Witness ==
    /\ pc = "returned"
    /\ round = 1
    /\ output_filename = "out.zip"
    /\ raw = ZIP_LOCAL \o <<0>> \o MAGIC
    /\ Delivered = raw

----------------------------------------------------------------------------
(* C2 *)

\* C2: every well-formed CRX3 buffer with header length H decodes to exactly
\* raw[12+H:].
C2_Original ==
    (Done /\ WellFormedCrx3(raw)) =>
        (pc = "returned" /\ Delivered = Crx3Payload(raw))

----------------------------------------------------------------------------
(* C3 *)

\* C3: every well-formed CRX2 buffer with key length K and signature length S
\* decodes to exactly raw[16+K+S:], also when that payload begins with Cr24.
C3_Crx2Payload ==
    (Done /\ WellFormedCrx2(raw)) =>
        (pc = "returned" /\ Delivered = Crx2Payload(raw))

----------------------------------------------------------------------------
(* C4 *)

SignatureOffsets(data) == {i \in 0..(Len(data) - 4) : SignatureAt(data, i)}

SignaturesPresent(data) ==
    {sig \in Signatures : \E i \in 0..(Len(data) - 4) : SubSeq(data, i + 1, i + 4) = sig}

\* C4: whenever the signature scan has run on a buffer that contains more than
\* one of the three ZIP signatures, the suffix delivered starts at the smallest
\* offset at which any of the three occurs.
C4_EarliestOccurrenceWins ==
    (/\ pc \in {"return", "returned"}
     /\ path \in {"scan", "header_scan"}
     /\ Cardinality(SignaturesPresent(crx_data)) > 1) =>
        Delivered = Drop(crx_data, MinOf(SignatureOffsets(crx_data)))

----------------------------------------------------------------------------
(* C5, C6 *)

\* the number of well-formed CRX3 containers wrapped around a payload that does
\* not begin with Cr24; 0 when the buffer is no such chain
RECURSIVE ChainDepth(_)
ChainDepth(data) ==
    IF ~WellFormedCrx3(data) THEN 0
    ELSE IF ~StartsWith(Crx3Payload(data), MAGIC) THEN 1
    ELSE LET inner == ChainDepth(Crx3Payload(data))
         IN  IF inner = 0 THEN 0 ELSE inner + 1

RECURSIVE InnermostPayload(_)
InnermostPayload(data) ==
    IF StartsWith(Crx3Payload(data), MAGIC)
    THEN InnermostPayload(Crx3Payload(data))
    ELSE Crx3Payload(data)

\* C5 as stated: a chain of CRX3 containers nested more than 8 levels deep is
\* rejected, decode fails instead of unwrapping it.
C5_Original ==
    (Done /\ ChainDepth(raw) > 8) => (pc = "raised" /\ error # "")

\* C5 amended: a chain of CRX3 containers nested more than 8 levels deep is not
\* rejected, it is unwrapped like a shallower one: its innermost payload is
\* written to the output file, and the call returns that file unless the ZIP
\* check on it raised.
C5_DeepChainUnwrapped ==
    (Done /\ ChainDepth(raw) > 8) =>
        /\ files[EffectiveName(output_filename)] = InnermostPayload(raw)
        /\ IF ZipFileOutcome(InnermostPayload(raw)) = "NotImplementedError"
           THEN pc = "raised" /\ error = "zip file version"
           ELSE pc = "returned" /\ error = "" /\ Delivered = InnermostPayload(raw)

C5_Witness ==
    /\ pc = "returned"
    /\ ChainDepth(raw) > 8
    /\ Delivered = ZIP_LOCAL
    /\ Len(raw) > 9 * 12

\* C6: a chain of d nested well-formed CRX3 containers, 1 <= d <= 8, whose
\* innermost payload does not begin with Cr24, decodes to that innermost
\* payload.
C6_ChainUnwrapped ==
    (Done /\ ChainDepth(raw) \in 1..8) =>
        (pc = "returned" /\ Delivered = InnermostPayload(raw))

----------------------------------------------------------------------------
(* C7 *)

\* C7 as stated: whenever decode succeeds, the bytes delivered begin with one
\* of the three ZIP signatures.
C7_Original == (pc = "returned") => StartsWithSignature(Delivered)

\* C7 amended: when decode succeeds on the already-ZIP path or through a
\* signature scan (without Cr24 magic, or after a header length above 10000),
\* the bytes delivered begin with one of the three ZIP signatures.
C7_SignatureOnScanPaths ==
    (pc = "returned" /\ path \in {"already_zip", "scan", "header_scan"}) =>
        StartsWithSignature(Delivered)

C7_Witness ==
    /\ pc = "returned"
    /\ path = "header_scan"
    /\ version = 3
    /\ depth = 0
    /\ StartsWith(Delivered, ZIP_SPAN)
    /\ Len(Delivered) < Len(raw) - 12

----------------------------------------------------------------------------
(* C8 *)

\* C8: decoding again an output that begins with a ZIP signature succeeds and
\* returns that output unchanged (in a second round raw is the first round's
\* output).
C8_RedecodeUnchanged ==
    (Done /\ round > 1 /\ StartsWithSignature(raw)) =>
        (pc = "returned" /\ Delivered = raw)

----------------------------------------------------------------------------
(* C9 *)

\* the offset the scan settles on: the first occurrence of the first of
\* PK\x03\x04, PK\x05\x06, PK\x07\x08 that occurs at all
FirstOccurrence(data, sig) ==
    MinOf({i \in 0..(Len(data) - 4) : SubSeq(data, i + 1, i + 4) = sig})

FoundSignatureOffset(data) ==
    IF ZIP_LOCAL \in SignaturesPresent(data) THEN FirstOccurrence(data, ZIP_LOCAL)
    ELSE IF ZIP_END \in SignaturesPresent(data) THEN FirstOccurrence(data, ZIP_END)
    ELSE FirstOccurrence(data, ZIP_SPAN)

NoMagicInput(data) ==
    /\ ~StartsWith(data, ZIP_LOCAL)
    /\ (Len(data) < 8 \/ ~StartsWith(data, MAGIC))

\* C9: an input that does not begin with PK\x03\x04 and is shorter than 8 bytes
\* or does not begin with Cr24 succeeds with the suffix starting at the found
\* signature when it contains a ZIP signature, and fails with the ValueError
\* "Does not start with Cr24" (NotAContainer) otherwise.
C9_ScanOrNotAContainer ==
    (Done /\ NoMagicInput(raw)) =>
        IF ContainsSignature(raw)
        THEN /\ pc = "returned"
             /\ Delivered = SubSeq(raw, FoundSignatureOffset(raw) + 1, Len(raw))
             /\ StartsWithSignature(Delivered)
        ELSE /\ pc = "raised"
             /\ error = "Invalid CRX file: Does not start with Cr24"
             /\ wraps = 1

C9_Witness ==
    /\ pc = "returned"
    /\ NoMagicInput(raw)
    /\ Len(raw) < 8
    /\ FoundSignatureOffset(raw) > 0
    /\ Delivered = ZIP_END

----------------------------------------------------------------------------
(* C10 *)

\* a CRX2 or CRX3 header, complete, one of whose lengths exceeds 10000
UntrustedHeader(data) ==
    /\ StartsWith(data, MAGIC)
    /\ \/ Len(data) >= 16 /\ data[5] = 2
          /\ (FieldAt(data, 8) > 10000 \/ FieldAt(data, 12) > 10000)
       \/ Len(data) >= 12 /\ data[5] = 3 /\ FieldAt(data, 8) > 10000

\* a complete header with a length of exactly 10000 and none above it
CeilingHeader(data) ==
    /\ StartsWith(data, MAGIC)
    /\ \/ Len(data) >= 16 /\ data[5] = 2
          /\ FieldAt(data, 8) <= 10000 /\ FieldAt(data, 12) <= 10000
          /\ 10000 \in {FieldAt(data, 8), FieldAt(data, 12)}
       \/ Len(data) >= 12 /\ data[5] = 3 /\ FieldAt(data, 8) = 10000

HeaderOffset(data) ==
    IF data[5] = 2 THEN 16 + FieldAt(data, 8) + FieldAt(data, 12)
    ELSE 12 + FieldAt(data, 8)

\* C10: with a length above 10000 in a complete CRX2 or CRX3 header the result
\* is that of the signature scan over the whole buffer: the suffix from the
\* found signature, or the ValueError "No ZIP signature found" (NotAContainer)
\* when there is none; a length of exactly 10000 is trusted, the offset is
\* computed from the header.
C10_CeilingFallback ==
    /\ (Done /\ UntrustedHeader(raw)) =>
          IF ContainsSignature(raw)
          THEN /\ pc = "returned"
               /\ Delivered = SubSeq(raw, FoundSignatureOffset(raw) + 1, Len(raw))
          ELSE /\ pc = "raised"
               /\ error = "No ZIP signature found in CRX file"
    /\ (Done /\ CeilingHeader(raw)) =>
          IF HeaderOffset(raw) >= Len(raw)
          THEN pc = "raised" /\ error = "CRX file appears to be corrupted"
          ELSE (raw[5] = 3
                    /\ StartsWith(SubSeq(raw, HeaderOffset(raw) + 1, Len(raw)), MAGIC))
               \/ (pc = "returned"
                   /\ Delivered = SubSeq(raw, HeaderOffset(raw) + 1, Len(raw)))

----------------------------------------------------------------------------
(* C11 *)

\* C11: a buffer of at least 8 bytes that begins with Cr24 and whose byte at
\* offset 4 is neither 2 nor 3 fails with the ValueError "Unexpected CRX format
\* version" for that byte (UnsupportedVersion), also when it is exactly 8 bytes
\* long; no signature scan is made, also when a ZIP signature is embedded.
C11_UnsupportedVersion ==
    (Done /\ Len(raw) >= 8 /\ StartsWith(raw, MAGIC) /\ raw[5] \notin {2, 3}) =>
        /\ pc = "raised"
        /\ error = "Unexpected CRX format version"
        /\ version = raw[5]
        /\ path = ""
        /\ ret = ""
        /\ files = prior_files

C11_Witness ==
    /\ pc = "raised"
    /\ StartsWith(raw, MAGIC)
    /\ Len(raw) > 8
    /\ raw[5] = 4
    /\ ContainsSignature(raw)
    /\ error = "Unexpected CRX format version"
    /\ version = 4

----------------------------------------------------------------------------
(* C12 *)

\* a complete CRX2 or CRX3 header none of whose lengths exceeds 10000
TrustedHeader(data) ==
    /\ StartsWith(data, MAGIC)
    /\ \/ Len(data) >= 16 /\ data[5] = 2
          /\ FieldAt(data, 8) <= 10000 /\ FieldAt(data, 12) <= 10000
       \/ Len(data) >= 12 /\ data[5] = 3 /\ FieldAt(data, 8) <= 10000

\* C12: when the payload offset computed from a trusted CRX2 or CRX3 header
\* is greater than or equal to the buffer length, decode fails with the
\* ValueError "CRX file appears to be corrupted" (Corrupted), returns nothing
\* and writes nothing; an offset equal to the length is such a case.
C12_CorruptedOffset ==
    (Done /\ TrustedHeader(raw) /\ HeaderOffset(raw) >= Len(raw)) =>
        /\ pc = "raised"
        /\ error = "CRX file appears to be corrupted"
        /\ ret = ""
        /\ files = prior_files

C12_Witness ==
    /\ pc = "raised"
    /\ TrustedHeader(raw)
    /\ raw[5] = 2
    /\ FieldAt(raw, 8) + FieldAt(raw, 12) > 0
    /\ HeaderOffset(raw) = Len(raw)
    /\ error = "CRX file appears to be corrupted"

----------------------------------------------------------------------------
(* C13 *)

\* C13: a buffer that begins with Cr24 and has version byte 2 and 8 to 15
\* bytes, or version byte 3 and 8 to 11 bytes, fails with the ValueError
\* "CRX2 file too small" or "CRX3 file too small" (Truncated), whatever bytes
\* follow the version field, and nothing is written.
C13_Truncated ==
    (/\ Done
     /\ Len(raw) >= 8
     /\ StartsWith(raw, MAGIC)
     /\ \/ raw[5] = 2 /\ Len(raw) < 16
        \/ raw[5] = 3 /\ Len(raw) < 12) =>
        /\ pc = "raised"
        /\ error = (IF raw[5] = 2 THEN "CRX2 file too small"
                    ELSE "CRX3 file too small")
        /\ ret = ""
        /\ files = prior_files

C13_Witness ==
    /\ pc = "raised"
    /\ StartsWith(raw, MAGIC)
    /\ Len(raw) = 15
    /\ raw[5] = 2
    /\ ContainsSignature(raw)
    /\ error = "CRX2 file too small"

----------------------------------------------------------------------------
(* C14 *)

\* C14: whenever decode succeeds, the bytes delivered are raw[i:] for an
\* offset i with 0 <= i < len(raw), on every path.
C14_OutputIsSuffix ==
    (pc = "returned") =>
        LET i == Len(raw) - Len(Delivered)
        IN  /\ 0 <= i
            /\ i < Len(raw)
            /\ Delivered = SubSeq(raw, i + 1, Len(raw))

\* a container nested in another one, the inner one decoded by the scan
C14_Witness ==
    /\ pc = "returned"
    /\ path = "header_scan"
    /\ WellFormedCrx3(raw)
    /\ StartsWith(Crx3Payload(raw), MAGIC)
    /\ Len(raw) - Len(Delivered) > 24
    /\ Delivered = ZIP_END

----------------------------------------------------------------------------
(* C15 *)

\* the messages of the decode errors NotAContainer, UnsupportedVersion,
\* Truncated and Corrupted
DecodeErrors ==
    {"Invalid CRX file: Does not start with Cr24",
     "No ZIP signature found in CRX file",
     "Unexpected CRX format version",
     "CRX2 file too small",
     "CRX3 file too small",
     "CRX file appears to be corrupted"}

\* C15: once a decode error is raised, in the outermost or in a nested call,
\* the output files are as they were when the call began and stay so, nothing
\* is returned, every frame only wraps the error in a ValueError and passes it
\* up until the caller has it, and no step of the decoding runs again.
C15_ErrorLeavesNoOutput ==
    [][(pc' \in {"except", "raised"} /\ error' \in DecodeErrors) =>
          /\ files' = prior_files'
          /\ ret' = ""
          /\ pc \in {"entry", "offset", "except"}
          /\ pc' = "raised" => wraps' >= 1
          /\ pc = "except" =>
                /\ error' = error
                /\ wraps' = wraps + 1
                /\ depth' <= depth
                /\ UNCHANGED <<crx_data, zip_start_offset, files>>]_vars

\* a failure three calls deep, over a file that existed before
C15_Witness ==
    /\ pc = "raised"
    /\ error = "CRX file appears to be corrupted"
    /\ wraps = 3
    /\ output_filename = "out.zip"
    /\ files["out.zip"] = <<1>>
    /\ files = prior_files

----------------------------------------------------------------------------
(* C19 *)

Rank(p) ==
    CASE p = "entry" -> 3
      [] p = "offset" -> 2
      [] p \in {"return", "except"} -> 1
      [] OTHER -> 0

\* a natural number that every step of a call makes smaller
Variant == 4 * Len(crx_data) + depth + Rank(pc)

\* C19: decode terminates: a call that has not finished can always take a
\* step and every step lowers a natural-valued measure; a recursive call is
\* made only for version 3, on a buffer at least 12 bytes shorter than the one
\* it was sliced from, so that 12 * depth + len(buffer) <= len(input).
C19_Progress == ~Done => (ENABLED Next /\ Variant > 0)

C19_Terminates ==
    /\ [][/\ ~Done => (Variant' < Variant /\ Variant' >= 0)
          /\ depth' > depth =>
                /\ version = 3
                /\ depth' = depth + 1
                /\ Len(crx_data') + 12 <= Len(crx_data)
          /\ 12 * depth' + Len(crx_data') <= Len(raw')]_vars

C19_Witness ==
    /\ pc = "entry"
    /\ depth = 9
    /\ Len(raw) - Len(crx_data) = 13 * depth

----------------------------------------------------------------------------
(* C16 *)

\* the name a call writes to, from its argument
OutputOf(name) == IF name = "None" THEN "extension.zip" ELSE name

\* what a call on this buffer ends in when it runs alone
Alone(data) ==
    LET e == extract_zip(data)
    IN  IF ~e.ok THEN [pc |-> "raised", error |-> e.error, delivered |-> <<>>]
        ELSE IF e.checked /\ ZipFileOutcome(e.data) = "NotImplementedError"
        THEN [pc |-> "raised", error |-> "zip file version", delivered |-> <<>>]
        ELSE [pc |-> "returned", error |-> "", delivered |-> e.data]

SameAsAlone(c) ==
    calls[c].pc \in {"returned", "raised"} =>
        /\ calls[c].pc = Alone(calls[c].crx_data).pc
        /\ calls[c].error = Alone(calls[c].crx_data).error
        /\ calls[c].delivered = Alone(calls[c].crx_data).delivered

\* C16 as stated: under every interleaving, each of two concurrent calls ends
\* as it would have ended alone, with the same bytes delivered.
C16_Original == \A c \in Callers : SameAsAlone(c)

\* C16 amended: two concurrent calls that write to different output files
\* each end as they would have ended alone, with the same bytes delivered.
C16_DistinctOutputsIndependent ==
    (OutputOf(calls[1].output_filename) # OutputOf(calls[2].output_filename)) =>
        \A c \in Callers : SameAsAlone(c)

\* both calls have finished, one by the ZIP check raising, and the other one
\* wrote its own file in between
C16_Witness ==
    /\ calls[1].pc = "raised"
    /\ calls[1].error = "zip file version"
    /\ calls[1].output_filename = "None"
    /\ calls[2].pc = "returned"
    /\ calls[2].output_filename = "out.zip"
    /\ calls[2].delivered = StoredArchive
    /\ files["extension.zip"] = UnsupportedArchive

----------------------------------------------------------------------------
(* C17 *)

\* the path /webstore/detail/<name>/<id>
NameAndIdPath(p) ==
    /\ Len(p) = 8
    /\ SubSeq(p, 1, 5) = <<"/", "webstore", "/", "detail", "/">>
    /\ p[6] # "/"
    /\ p[7] = "/"
    /\ p[8] # "/"

\* C17: for a URL with host chrome.google.com and path
\* /webstore/detail/<name>/<id>, parse_chrome_store_url returns <id>; for a
\* URL whose host is not chrome.google.com it raises ValueError.
C17_ParseStoreUrl ==
    (url_call.pc \in {"returned", "raised"}) =>
        /\ (url_call.host = "chrome.google.com" /\ NameAndIdPath(url_call.path)) =>
              (url_call.pc = "returned" /\ url_call.ret = url_call.path[8])
        /\ (url_call.host # "chrome.google.com") => url_call.pc = "raised"

----------------------------------------------------------------------------
(* C18 *)

\* exactly 32 characters from a to p
ValidId(id) == Len(id) = 32 /\ \A i \in 1..32 : id[i] \in AtoP

DlDone == dl.pc \in {"returned", "raised"}

\* C18: download_and_convert raises ValueError when the extension ID is not
\* exactly 32 characters from a to p, without any download, and when the
\* download yields None or no bytes; in both cases the converter is not called
\* and neither <id>.crx nor the output ZIP is written.
C18_RejectsBeforeWriting ==
    DlDone =>
        /\ ~ValidId(dl.extension_id) =>
              /\ dl.pc = "raised"
              /\ dl.error = "Invalid extension ID format"
              /\ dl.downloads = 0
              /\ dl.converts = 0
              /\ dl.written = {}
        /\ (ValidId(dl.extension_id) /\ dl.response \in {NoData, <<>>}) =>
              /\ dl.pc = "raised"
              /\ dl.error = "Failed to download CRX file"
              /\ dl.converts = 0
              /\ dl.written = {}

\* the same with the ID test the code makes in place of the one C18 states
C18_WithPatternOfCode ==
    DlDone =>
        /\ ~MatchesIdPattern(dl.extension_id) =>
              /\ dl.pc = "raised"
              /\ dl.downloads = 0
              /\ dl.converts = 0
              /\ dl.written = {}
        /\ (MatchesIdPattern(dl.extension_id) /\ dl.response \in {NoData, <<>>}) =>
              /\ dl.pc = "raised"
              /\ dl.converts = 0
              /\ dl.written = {}

----------------------------------------------------------------------------
(* C20 *)

CrxExists == files[CrxFilename(dl.extension_id)] # NoFile

\* C20: after download_and_convert, <id>.crx exists if and only if the call
\* succeeded with cleanup=False, and then holds the downloaded bytes; with
\* cleanup=True it is still there while the conversion runs; every failing
\* call leaves no <id>.crx behind, also one that existed before, and raises.
C20_CrxFileLifecycle ==
    /\ DlDone =>
          /\ CrxExists <=> (dl.pc = "returned" /\ ~dl.cleanup)
          /\ (dl.pc = "returned" /\ ~dl.cleanup) =>
                files[CrxFilename(dl.extension_id)] = dl.response
          /\ dl.pc = "raised" => dl.error # ""
    /\ dl.pc = "convert" => files[CrxFilename(dl.extension_id)] = dl.response
    /\ dl.pc = "returned" => dl.converts = 1

\* the same for the calls whose output file is not <id>.crx itself
C20_UnlessOutputIsCrxFile ==
    (dl.output_filename # CrxFilename(dl.extension_id)) => C20_CrxFileLifecycle

====
